---------------------------- MODULE Spec2Model ----------------------------
(***************************************************************************)
(* open-directory.alfredworkflow: the directory search (scoring, ranking,  *)
(* presenting) and the two subcommands, search and open, of src/main.rs,   *)
(* with the duplicate of the ranking pipeline kept in src/directory.rs.    *)
(*                                                                         *)
(* A Rust String is a sequence of one-character strings; a fixed piece of  *)
(* text of a format string is one element of such a sequence.              *)
(* An Option is NoneVal or Some(x).                                        *)
(***************************************************************************)
EXTENDS Integers, Sequences, FiniteSets, Bags, TLC

VARIABLES
    pc,                 \* the position of the invocation
    pattern,            \* search --pattern <PATTERN>, as clap hands it over
    path,               \* open --path <PATH>
    directory_path,     \* search_for_directories: let directory_path
    binary_to_execute,  \* let binary_to_execute (a String)
    fs,                 \* the file system read_dir saw: root -> listing
    directory_pathes,   \* let directory_pathes: Vec<PathBuf>
    directories,        \* let directories: Vec<Directory>
    query,              \* the query the ranking pipeline is called with
    skim,               \* SkimMatcherV2's score of each matching name for query
    ranked,             \* the result of a call of the ranker on its own
    items,              \* let items: Vec<Item>
    stdout,             \* the item lists powerpack::output has written
    launched,           \* the subprocesses std::process::Command has run
    panic               \* the message of the panic that ended the invocation

vars == <<pc, pattern, path, directory_path, binary_to_execute, fs,
          directory_pathes, directories, query, skim, ranked, items, stdout,
          launched, panic>>

(***************************************************************************)
(* Bounds of the model.                                                    *)
(***************************************************************************)
MaxLen == 3         \* candidates handed to the ranking pipeline
MaxQueryLen == 2    \* characters of a query handed to the ranking pipeline
MaxScore == 2       \* the largest score the matcher gives
MaxEntries == 2     \* entries the file system holds under its roots

NoneVal == [some |-> FALSE]
Some(x) == [some |-> TRUE, val |-> x]

BoundedSeq(S, n) == UNION {[1..k -> S] : k \in 0..n}

Range(s) == {s[i] : i \in 1..Len(s)}

RECURSIVE Concat(_)
Concat(ss) == IF ss = <<>> THEN <<>> ELSE Head(ss) \o Concat(Tail(ss))

(***************************************************************************)
(* Directory { name, path } and powerpack's Item { title, subtitle, arg }. *)
(***************************************************************************)
Directory(name, p) == [name |-> name, path |-> p]

Item_new(title) == [title |-> title, subtitle |-> NoneVal, arg |-> NoneVal]

\* A mutant of to_item: the name, not the path, is handed back as the payload.
to_item_arg_is_name(directory, binary) ==
    [title |-> directory.name,
     subtitle |-> Some(<<"execute → ">> \o binary \o <<" ">> \o directory.path),
     arg |-> Some(directory.name)]

to_item(directory, binary) ==
    [title |-> directory.name,
     subtitle |-> Some(<<"execute → ">> \o binary \o <<" ">> \o directory.path),
     arg |-> Some(directory.path)]

(***************************************************************************)
(* SkimMatcherV2::default().fuzzy_match(choice, pattern), the call of      *)
(* calculate_matching_score.  The matcher is the fuzzy-matcher crate's:    *)
(* with the default (smart) case rule a pattern holding an upper-case      *)
(* letter is matched case-sensitively and any other pattern ignoring       *)
(* case; the result is None unless the pattern's characters occur in the   *)
(* choice in order, Some(0) for the empty pattern, and Some(score)         *)
(* otherwise.  The score of a match is the crate's own arithmetic          *)
(* (bonuses for matched characters, penalties for gaps) and is left open   *)
(* here: skim holds one score, fixed for the run, for each name that       *)
(* matches the query, drawn from RawScores.                                *)
(***************************************************************************)
Lower(c) == IF c = "D" THEN "d" ELSE IF c = "O" THEN "o" ELSE c

contains_upper(s) == \E i \in 1..Len(s) : Lower(s[i]) # s[i]

char_equal(a, b, case_sensitive) ==
    IF case_sensitive THEN a = b ELSE Lower(a) = Lower(b)

RECURSIVE cheap_matches(_, _, _)
cheap_matches(choice, pat, case_sensitive) ==
    IF pat = <<>> THEN TRUE
    ELSE IF choice = <<>> THEN FALSE
    ELSE IF char_equal(Head(choice), Head(pat), case_sensitive)
         THEN cheap_matches(Tail(choice), Tail(pat), case_sensitive)
         ELSE cheap_matches(Tail(choice), pat, case_sensitive)

Matches(name, q) == cheap_matches(name, q, contains_upper(q))

RawScores == (0 - 1)..MaxScore

fuzzy_match(choice, pat) ==
    IF pat = <<>> THEN Some(0)
    ELSE IF ~Matches(choice, pat) THEN NoneVal
    ELSE Some(skim[choice])

\* The names of ds the matcher scores for q, and the tables it may hold.
MatchingNames(ds, q) ==
    {ds[i].name : i \in {j \in 1..Len(ds) : q # <<>> /\ Matches(ds[j].name, q)}}

ScoreTables(ds, q) == [MatchingNames(ds, q) -> RawScores]

\* Option::get_or_insert(0).to_owned()
get_or_insert(opt, v) == IF opt.some THEN opt.val ELSE v

calculate_matching_score(directory, q) ==
    0 - get_or_insert(fuzzy_match(directory.name, q), 0)

(***************************************************************************)
(* itertools' sorted_by_key: Vec::sort_by_key, a stable sort.  Each        *)
(* element is put behind the elements before it whose key is not larger.   *)
(***************************************************************************)
\* A mutant of insert_by_key: an element goes in front of its equals.
insert_before_equals(sorted, directory, q) ==
    LET k == calculate_matching_score(directory, q)
        n == Cardinality({i \in 1..Len(sorted) :
                            calculate_matching_score(sorted[i], q) < k})
    IN  SubSeq(sorted, 1, n) \o <<directory>> \o SubSeq(sorted, n + 1, Len(sorted))

insert_by_key(sorted, directory, q) ==
    LET k == calculate_matching_score(directory, q)
        n == Cardinality({i \in 1..Len(sorted) :
                            calculate_matching_score(sorted[i], q) <= k})
    IN  SubSeq(sorted, 1, n) \o <<directory>> \o SubSeq(sorted, n + 1, Len(sorted))

RECURSIVE sorted_by_key(_, _)
sorted_by_key(ds, q) ==
    IF ds = <<>> THEN <<>>
    ELSE insert_by_key(sorted_by_key(SubSeq(ds, 1, Len(ds) - 1), q), ds[Len(ds)], q)

\* A mutant of the ranker: the filter keeps score 0.
rank_keeps_zero(ds, q) ==
    SelectSeq(sorted_by_key(ds, q), LAMBDA d : calculate_matching_score(d, q) <= 0)

\* A mutant of the ranker: the sort is left out.
rank_unsorted(ds, q) ==
    SelectSeq(ds, LAMBDA d : calculate_matching_score(d, q) < 0)

\* A mutant of the ranker: an entry that occurs twice is kept once.
rank_drops_duplicates(ds, q) ==
    LET r == SelectSeq(sorted_by_key(ds, q), LAMBDA d : calculate_matching_score(d, q) < 0)
    IN  SelectSeq([i \in 1..Len(r) |->
                     IF \E j \in 1..(i - 1) : r[j] = r[i] THEN NoneVal ELSE r[i]],
                  LAMBDA d : d # NoneVal)

sort_and_filter_matching_directories(ds, q) ==
    SelectSeq(sorted_by_key(ds, q), LAMBDA d : calculate_matching_score(d, q) < 0)

Directory_sort_and_filter_matching_directories(ds, q) ==
    SelectSeq(sorted_by_key(ds, q), LAMBDA d : calculate_matching_score(d, q) < 0)

\* A mutant of default: the two messages are the wrong way round.
default_swapped(q) ==
    IF q # <<>>
    THEN Item_new(<<"please add a search pattern">>)
    ELSE Item_new(<<"nothing found for ">> \o q \o <<", try to reformulate your search">>)

default(q) ==
    IF q = <<>>
    THEN Item_new(<<"please add a search pattern">>)
    ELSE Item_new(<<"nothing found for ">> \o q \o <<", try to reformulate your search">>)

\* A mutant of to_items: no fallback record for an empty result.
to_items_no_fallback(ds, q, binary) ==
    LET r == sort_and_filter_matching_directories(ds, q)
    IN  [i \in 1..Len(r) |-> to_item(r[i], binary)]

to_items(ds, q, binary) ==
    LET r == sort_and_filter_matching_directories(ds, q)
        matched_directories == [i \in 1..Len(r) |-> to_item(r[i], binary)]
    IN  IF matched_directories = <<>> THEN <<default(q)>> ELSE matched_directories

Directory_transform_to_items(ds, q, binary) ==
    LET r == Directory_sort_and_filter_matching_directories(ds, q)
        matched_directories == [i \in 1..Len(r) |-> to_item(r[i], binary)]
    IN  IF matched_directories = <<>> THEN <<default(q)>> ELSE matched_directories


(***************************************************************************)
(* The ranking pipeline on its own: any candidate list, any query.         *)
(***************************************************************************)
DirPool ==
    {Directory(<<"d", "o">>, <<"r", "/", "d", "o">>),
     Directory(<<"D", "o">>, <<"r", "/", "D", "o">>),
     Directory(<<"d", "o">>, <<"s", "/", "d", "o">>),
     Directory(<<"o", "d">>, <<"r", "/", "o", "d">>)}

QueryChars == {"d", "o", "D"}

Binaries == {<<"c", "o", "d", "e">>}

CoreInit ==
    /\ pc = "core"
    /\ directories \in BoundedSeq(DirPool, MaxLen)
    /\ query \in BoundedSeq(QueryChars, MaxQueryLen)
    /\ binary_to_execute \in Binaries
    /\ skim \in ScoreTables(directories, query)
    /\ pattern = NoneVal
    /\ path = NoneVal
    /\ directory_path = NoneVal
    /\ fs = <<>>
    /\ directory_pathes = <<>>
    /\ ranked = <<>>
    /\ items = <<>>
    /\ stdout = <<>>
    /\ launched = <<>>
    /\ panic = NoneVal

\* sort_and_filter_matching_directories(directories, query) of main.rs
Rank ==
    /\ pc = "core"
    /\ ranked' = sort_and_filter_matching_directories(directories, query)
    /\ pc' = "ranked"
    /\ UNCHANGED <<pattern, path, directory_path, binary_to_execute, fs,
                   directory_pathes, directories, query, skim, items, stdout,
                   launched, panic>>

\* Directory::sort_and_filter_matching_directories of directory.rs
DirectoryRank ==
    /\ pc = "core"
    /\ ranked' = Directory_sort_and_filter_matching_directories(directories, query)
    /\ pc' = "ranked"
    /\ UNCHANGED <<pattern, path, directory_path, binary_to_execute, fs,
                   directory_pathes, directories, query, skim, items, stdout,
                   launched, panic>>

\* to_items(directories, query, binary_to_execute) of main.rs
Present ==
    /\ pc = "ranked"
    /\ items' = to_items(directories, query, binary_to_execute)
    /\ pc' = "presented"
    /\ UNCHANGED <<pattern, path, directory_path, binary_to_execute, fs,
                   directory_pathes, directories, query, skim, ranked, stdout,
                   launched, panic>>

\* Directory::transform_to_items of directory.rs
DirectoryPresent ==
    /\ pc = "ranked"
    /\ items' = Directory_transform_to_items(directories, query, binary_to_execute)
    /\ pc' = "presented"
    /\ UNCHANGED <<pattern, path, directory_path, binary_to_execute, fs,
                   directory_pathes, directories, query, skim, ranked, stdout,
                   launched, panic>>

CoreNext == Rank \/ DirectoryRank \/ Present \/ DirectoryPresent

CoreSpec == CoreInit /\ [][CoreNext]_vars


(***************************************************************************)
(* The invocation: main, search_for_directories, open_directory.           *)
(*                                                                         *)
(* The file system maps each root directory to its listing, the sequence   *)
(* read_dir yields: an entry has a file name and is a directory ("dir"),   *)
(* something else ("file"), an entry read_dir fails to yield ("ioerr") or  *)
(* an entry whose metadata cannot be read ("nometa").  The names of one    *)
(* listing differ.  RawByte stands for a file name that is not UTF-8.      *)
(***************************************************************************)
RawByte == "<FF>"

FileNames == {<<"d", "o">>, <<"D", "o">>, <<RawByte>>}

Kinds == {"dir", "file", "ioerr", "nometa"}

Entries == [fname : FileNames, kind : Kinds]

Roots == {<<"r">>, <<"s">>}

Listings(n) ==
    {l \in BoundedSeq(Entries, n) :
        \A i \in 1..Len(l) : \A j \in 1..Len(l) : i # j => l[i].fname # l[j].fname}

\* The two roots hold at most MaxEntries entries together.
ListingsUpTo == [n \in 0..MaxEntries |-> Listings(n)]

FileSystems ==
    UNION {{(<<"r">> :> a) @@ (<<"s">> :> b) : b \in ListingsUpTo[MaxEntries - Len(a)]} :
             a \in ListingsUpTo[MaxEntries]}

\* The values of the environment and of the command line.
DirectoryPathValues ==
    {<<"r">>, <<"s">>, <<"r", "/">>, <<"r", ",", "s">>, <<"r", ",", " ", "s">>,
     <<"x">>}

\* --pattern: empty, only whitespace, plain, padded, with an upper-case letter
Patterns == {<<>>, <<" ">>, <<"d">>, <<" ", "d", " ">>, <<"D", "o">>}

PathArgs == {<<>>, <<"r", "/", "d", "o">>}

\* str::trim on the model's one whitespace character
RECURSIVE trim_start(_)
trim_start(s) ==
    IF s # <<>> /\ Head(s) = " " THEN trim_start(Tail(s)) ELSE s

RECURSIVE trim_end(_)
trim_end(s) ==
    IF s # <<>> /\ s[Len(s)] = " " THEN trim_end(SubSeq(s, 1, Len(s) - 1)) ELSE s

\* A mutant of trim: the pattern is taken as it is.
trim_missing(s) == s

trim(s) == trim_end(trim_start(s))

\* The directory a path names, None when there is none to read.
lookup(f, full_path) ==
    LET p == IF Len(full_path) > 1 /\ full_path[Len(full_path)] = "/"
             THEN SubSeq(full_path, 1, Len(full_path) - 1)
             ELSE full_path
    IN  IF p \in DOMAIN f THEN Some(f[p]) ELSE NoneVal

\* DirEntry::path: the root joined with the entry's file name
join(root, fname) ==
    IF root # <<>> /\ root[Len(root)] = "/"
    THEN root \o fname
    ELSE root \o <<"/">> \o fname

\* Path::file_name: the last component, None for a path that ends in "..".
file_name(p) ==
    LET slashes == {i \in 1..Len(p) : p[i] = "/"}
        from == IF slashes = {} THEN 1
                ELSE 1 + CHOOSE i \in slashes : \A j \in slashes : j <= i
        last == SubSeq(p, from, Len(p))
    IN  IF last = <<>> \/ last = <<".", ".">> THEN NoneVal ELSE Some(last)

\* OsStr::to_str
to_str(s) == IF RawByte \in Range(s) THEN NoneVal ELSE Some(s)

unwrap_or_default(opt) == IF opt.some THEN opt.val ELSE <<>>

from_pathbuf(p) ==
    LET f == file_name(p)
        name == IF f.some THEN unwrap_or_default(to_str(f.val)) ELSE <<>>
    IN  Directory(name, unwrap_or_default(to_str(p)))

\* A mutant of is_dir: an entry whose metadata cannot be read is no directory.
is_dir_or_false(entry) ==
    IF entry.kind = "nometa" THEN Some(FALSE) ELSE Some(entry.kind = "dir")

\* is_dir: None stands for the panic of unwrap.
is_dir(entry) ==
    IF entry.kind = "nometa" THEN NoneVal ELSE Some(entry.kind = "dir")

\* read_directories: the paths found, or the panic that ends it.
read_directories(f, full_path) ==
    LET l == lookup(f, full_path)
        ok == IF l.some THEN SelectSeq(l.val, LAMBDA e : e.kind # "ioerr") ELSE <<>>
        found == SelectSeq(ok, LAMBDA e : is_dir(e).some /\ is_dir(e).val)
    IN  IF ~l.some
        THEN [panic |-> Some("unable to read sub DIRECTORY_PATH"), val |-> <<>>]
        ELSE IF \E i \in 1..Len(ok) : ~is_dir(ok[i]).some
        THEN [panic |-> Some("called Result::unwrap() on an Err value"), val |-> <<>>]
        ELSE [panic |-> NoneVal,
              val |-> [i \in 1..Len(found) |-> join(full_path, found[i].fname)]]

\* The match on the trimmed pattern of search_for_directories.
search_query(pat) == IF pat.some THEN Some(trim(pat.val)) ELSE NoneVal

search_items(pat, ds, binary) ==
    LET trimmed == search_query(pat)
    IN  IF ~trimmed.some \/ trimmed.val = <<>>
        THEN <<default(<<>>)>>
        ELSE to_items(ds, trimmed.val, binary)

Init ==
    /\ pc = "main"
    /\ pattern = NoneVal
    /\ path = NoneVal
    /\ directory_path = NoneVal
    /\ binary_to_execute = NoneVal
    /\ fs = <<>>
    /\ directory_pathes = <<>>
    /\ directories = <<>>
    /\ query = <<>>
    /\ skim = <<>>
    /\ ranked = <<>>
    /\ items = <<>>
    /\ stdout = <<>>
    /\ launched = <<>>
    /\ panic = NoneVal

Panic(msg) ==
    /\ pc' = "panicked"
    /\ panic' = Some(msg)

\* main: Some(("search", sub_matches)); --pattern is required
MainSearch ==
    /\ pc = "main"
    /\ \E p \in Patterns : pattern' = Some(p)
    /\ pc' = "search_DIRECTORY_PATH"
    /\ UNCHANGED <<path, directory_path, binary_to_execute, fs, directory_pathes,
                   directories, query, skim, ranked, items, stdout, launched, panic>>

\* main: Some(("open", sub_matches)); --path is required
MainOpen ==
    /\ pc = "main"
    /\ \E p \in PathArgs : path' = Some(p)
    /\ pc' = "open_BINARY_TO_EXECUTE"
    /\ UNCHANGED <<pattern, directory_path, binary_to_execute, fs, directory_pathes,
                   directories, query, skim, ranked, items, stdout, launched, panic>>

\* env::var("DIRECTORY_PATH").expect("DIRECTORY_PATH not set")
SearchDirectoryPath ==
    /\ pc = "search_DIRECTORY_PATH"
    /\ \E v \in {NoneVal} \cup {Some(d) : d \in DirectoryPathValues} :
          IF v.some
          THEN /\ directory_path' = v
               /\ pc' = "search_BINARY_TO_EXECUTE"
               /\ UNCHANGED panic
          ELSE /\ Panic("DIRECTORY_PATH not set")
               /\ UNCHANGED directory_path
    /\ UNCHANGED <<pattern, path, binary_to_execute, fs, directory_pathes,
                   directories, query, skim, ranked, items, stdout, launched>>

\* env::var("BINARY_TO_EXECUTE").expect("BINARY_TO_EXECUTE not set")
SearchBinaryToExecute ==
    /\ pc = "search_BINARY_TO_EXECUTE"
    /\ \E v \in {NoneVal} \cup {Some(b) : b \in Binaries} :
          IF v.some
          THEN /\ binary_to_execute' = v.val
               /\ pc' = "search_read_directories"
               /\ UNCHANGED panic
          ELSE /\ Panic("BINARY_TO_EXECUTE not set")
               /\ UNCHANGED binary_to_execute
    /\ UNCHANGED <<pattern, path, directory_path, fs, directory_pathes,
                   directories, query, skim, ranked, items, stdout, launched>>

\* let directory_pathes = read_directories(directory_path)
SearchReadDirectories ==
    /\ pc = "search_read_directories"
    /\ \E f \in FileSystems :
          LET r == read_directories(f, directory_path.val)
          IN  /\ fs' = f
              /\ IF r.panic.some
                 THEN /\ Panic(r.panic.val)
                      /\ UNCHANGED directory_pathes
                 ELSE /\ directory_pathes' = r.val
                      /\ pc' = "search_from_pathbuf"
                      /\ UNCHANGED panic
    /\ UNCHANGED <<pattern, path, directory_path, binary_to_execute,
                   directories, query, skim, ranked, items, stdout, launched>>

\* let directories = directory_pathes.iter().map(Directory::from_pathbuf).collect()
SearchFromPathbuf ==
    /\ pc = "search_from_pathbuf"
    /\ directories' = [i \in 1..Len(directory_pathes) |-> from_pathbuf(directory_pathes[i])]
    /\ pc' = "search_pattern"
    /\ UNCHANGED <<pattern, path, directory_path, binary_to_execute, fs,
                   directory_pathes, query, skim, ranked, items, stdout, launched,
                   panic>>

\* let pattern = arguments.get_one::<String>("pattern"): the query the
\* matcher will be asked about, and the scores it holds for that query.
SearchPattern ==
    /\ pc = "search_pattern"
    /\ query' = unwrap_or_default(search_query(pattern))
    /\ skim' \in ScoreTables(directories, query')
    /\ pc' = "search_items"
    /\ UNCHANGED <<pattern, path, directory_path, binary_to_execute, fs,
                   directory_pathes, directories, ranked, items, stdout, launched,
                   panic>>

\* let items = match pattern.map(|pattern| pattern.as_str().trim()) { ... }
SearchItems ==
    /\ pc = "search_items"
    /\ items' = search_items(pattern, directories, binary_to_execute)
    /\ pc' = "search_output"
    /\ UNCHANGED <<pattern, path, directory_path, binary_to_execute, fs,
                   directory_pathes, directories, query, skim, ranked, stdout,
                   launched, panic>>

\* powerpack::output(items)?; Ok(())
SearchOutput ==
    /\ pc = "search_output"
    /\ \E written \in BOOLEAN :
          IF written
          THEN /\ stdout' = Append(stdout, items)
               /\ pc' = "done"
          ELSE /\ pc' = "failed"
               /\ UNCHANGED stdout
    /\ UNCHANGED <<pattern, path, directory_path, binary_to_execute, fs,
                   directory_pathes, directories, query, skim, ranked, items,
                   launched, panic>>

\* env::var("BINARY_TO_EXECUTE").expect("BINARY_TO_EXECUTE not set")
OpenBinaryToExecute ==
    /\ pc = "open_BINARY_TO_EXECUTE"
    /\ \E v \in {NoneVal} \cup {Some(b) : b \in Binaries} :
          IF v.some
          THEN /\ binary_to_execute' = v.val
               /\ pc' = "open_command"
               /\ UNCHANGED panic
          ELSE /\ Panic("BINARY_TO_EXECUTE not set")
               /\ UNCHANGED binary_to_execute
    /\ UNCHANGED <<pattern, path, directory_path, fs, directory_pathes,
                   directories, query, skim, ranked, items, stdout, launched>>

\* Command::new(binary_to_execute).arg(path).output().expect(...); Ok(())
OpenCommand ==
    /\ pc = "open_command"
    /\ \E spawned \in BOOLEAN :
          IF spawned
          THEN /\ launched' = Append(launched,
                                     [program |-> binary_to_execute, args |-> <<path.val>>])
               /\ pc' = "done"
               /\ UNCHANGED panic
          ELSE /\ Panic("failed to execute process")
               /\ UNCHANGED launched
    /\ UNCHANGED <<pattern, path, directory_path, binary_to_execute, fs,
                   directory_pathes, directories, query, skim, ranked, items, stdout>>

Next ==
    \/ MainSearch
    \/ MainOpen
    \/ SearchDirectoryPath
    \/ SearchBinaryToExecute
    \/ SearchReadDirectories
    \/ SearchFromPathbuf
    \/ SearchPattern
    \/ SearchItems
    \/ SearchOutput
    \/ OpenBinaryToExecute
    \/ OpenCommand

Spec == Init /\ [][Next]_vars

(***************************************************************************)
(* Claims about the ranking pipeline, checked under CoreSpec.              *)
(***************************************************************************)
Score(d) == calculate_matching_score(d, query)

\* name holds the characters of q in q's order, upper and lower case told
\* apart only when q holds an upper-case letter.
AdmitsSubsequence(name, q) ==
    \E f \in [1..Len(q) -> 1..Len(name)] :
        /\ \A i \in 1..Len(q) : \A j \in 1..Len(q) : i < j => f[i] < f[j]
        /\ \A i \in 1..Len(q) : char_equal(name[f[i]], q[i], contains_upper(q))

SeqToBag(s) == [x \in Range(s) |-> Cardinality({i \in 1..Len(s) : s[i] = x})]

HasRanked == pc \in {"ranked", "presented"}

\* C1: the presenter's result holds at least one record, whatever the
\* candidate list and the query.
C1_PresenterNonEmpty == pc = "presented" => Len(items) >= 1

C1_Witness ==
    /\ pc = "presented"
    /\ directories = <<>>
    /\ query = <<>>
    /\ Len(items) = 1

\* C2: every entry the ranker returns has a name that admits the query as an
\* ordered subsequence; an entry whose name does not has score 0 and is not
\* in the result.
C2_NoFalsePositives ==
    HasRanked =>
        /\ \A i \in 1..Len(ranked) : AdmitsSubsequence(ranked[i].name, query)
        /\ \A i \in 1..Len(directories) :
              ~AdmitsSubsequence(directories[i].name, query) =>
                  /\ Score(directories[i]) = 0
                  /\ directories[i] \notin Range(ranked)

C2_Witness ==
    /\ HasRanked
    /\ ranked # <<>>
    /\ \E i \in 1..Len(directories) :
          /\ ~AdmitsSubsequence(directories[i].name, query)
          /\ directories[i] \notin Range(ranked)

\* C3 as stated: for any two different kept entries A and B of the ranker's
\* result, score(A) <= score(B) means that A's place is not after B's.
C3_Original ==
    HasRanked =>
        \A i \in 1..Len(ranked) : \A j \in 1..Len(ranked) :
            (ranked[i] # ranked[j] /\ Score(ranked[i]) <= Score(ranked[j])) => i <= j

\* C3 as amended: in the ranker's result an entry with a strictly smaller
\* score stands before an entry with a larger one.
C3_StrictlySmallerFirst ==
    HasRanked =>
        \A i \in 1..Len(ranked) : \A j \in 1..Len(ranked) :
            Score(ranked[i]) < Score(ranked[j]) => i < j

C3_Witness ==
    /\ HasRanked
    /\ Len(ranked) >= 2
    /\ Score(ranked[1]) < Score(ranked[Len(ranked)])
    /\ \E i \in 1..Len(directories) : \E j \in 1..Len(directories) :
          i < j /\ Score(directories[j]) < Score(directories[i])
                /\ Score(directories[j]) < 0 /\ Score(directories[i]) < 0

\* C4: the sort is stable: the kept entries of one score stand in the
\* result in the order they have in the input.
C4_Stable ==
    HasRanked =>
        \A k \in {Score(ranked[i]) : i \in 1..Len(ranked)} :
            SelectSeq(ranked, LAMBDA d : Score(d) = k)
                = SelectSeq(directories, LAMBDA d : Score(d) = k)

C4_Witness ==
    /\ HasRanked
    /\ \E i \in 1..Len(ranked) : \E j \in 1..Len(ranked) :
          /\ i < j
          /\ ranked[i] # ranked[j]
          /\ Score(ranked[i]) = Score(ranked[j])
    /\ \E i \in 1..Len(ranked) : Score(ranked[i]) # Score(ranked[1])

\* C6: for a non-empty query that no candidate matches, the presenter
\* returns the one record "nothing found for <query>, try to reformulate
\* your search", without a payload.
C6_NothingFound ==
    (pc = "presented" /\ query # <<>> /\ ranked = <<>>) =>
        items = <<[title |-> <<"nothing found for ">> \o query
                               \o <<", try to reformulate your search">>,
                   subtitle |-> NoneVal,
                   arg |-> NoneVal]>>

C6_Witness ==
    /\ pc = "presented"
    /\ query # <<>>
    /\ directories # <<>>
    /\ \A i \in 1..Len(directories) : ~AdmitsSubsequence(directories[i].name, query)
    /\ Len(items) = 1
    /\ items[1].arg = NoneVal

\* C7: when the ranker keeps an entry, the presenter returns one record for
\* each ranked entry, in the ranker's order, with the entry's name as the
\* title, its path as the payload, and a subtitle made of the action label
\* and the path; no fallback record is among them.
C7_OneRecordPerRankedEntry ==
    (pc = "presented" /\ ranked # <<>>) =>
        /\ Len(items) = Len(ranked)
        /\ \A i \in 1..Len(ranked) :
              /\ items[i].title = ranked[i].name
              /\ items[i].arg = Some(ranked[i].path)
              /\ items[i].subtitle
                    = Some(<<"execute → ">> \o binary_to_execute \o <<" ">>
                           \o ranked[i].path)
        /\ default(query) \notin Range(items)

C7_Witness ==
    /\ pc = "presented"
    /\ Len(ranked) >= 2
    /\ ranked[1].name # ranked[2].name
    /\ Len(items) = Len(ranked)

\* C8: the ranker's result is a permutation of the input entries whose
\* score is below 0, every occurrence kept once and unchanged; it is empty
\* for an empty input and never longer than the input.
C8_PermutationOfMatches ==
    HasRanked =>
        /\ SeqToBag(ranked)
              = SeqToBag(SelectSeq(directories, LAMBDA d : Score(d) < 0))
        /\ Len(ranked) <= Len(directories)
        /\ (directories = <<>> => ranked = <<>>)

C8_Witness ==
    /\ HasRanked
    /\ Len(ranked) < Len(directories)
    /\ \E i \in 1..Len(ranked) : \E j \in 1..Len(ranked) :
          i < j /\ ranked[i] = ranked[j]


(***************************************************************************)
(* Claims about the invocation, checked under Spec.                        *)
(***************************************************************************)
PleaseAdd ==
    [title |-> <<"please add a search pattern">>, subtitle |-> NoneVal, arg |-> NoneVal]

OnlyWhitespace(s) == \A i \in 1..Len(s) : s[i] = " "

SearchHasItems == pattern.some /\ pc \in {"search_output", "done", "failed"}

\* The listing of the directory the search read.
RootListing == unwrap_or_default(lookup(fs, directory_path.val))

\* C5: a search whose pattern is absent, empty or only whitespace yields
\* the one record "please add a search pattern", without a payload and
\* whatever the candidates are, and so does the presenter when it is handed
\* the empty query itself.
C5_EmptyQuery ==
    /\ (SearchHasItems /\ OnlyWhitespace(pattern.val)) =>
          /\ items = <<PleaseAdd>>
          /\ (pc = "done" => stdout = <<(<<PleaseAdd>>)>>)
    /\ SearchHasItems =>
          /\ to_items(directories, <<>>, binary_to_execute) = <<PleaseAdd>>
          /\ Directory_transform_to_items(directories, <<>>, binary_to_execute)
                = <<PleaseAdd>>
          /\ search_items(NoneVal, directories, binary_to_execute) = <<PleaseAdd>>

C5_Witness ==
    /\ pc = "done"
    /\ pattern = Some(<<" ">>)
    /\ \E i \in 1..Len(directories) : directories[i].name = <<"d", "o">>
    /\ stdout = <<(<<PleaseAdd>>)>>

\* The parts of C9 that do not depend on which errors count: the item list
\* is written at most once, as the last step of a search that has read the
\* two variables and the root directory, and never beside a panic.
C9_NoPartialOutput ==
    /\ Len(stdout) <= 1
    /\ stdout # <<>> =>
          /\ pc = "done"
          /\ panic = NoneVal
          /\ stdout = <<items>>
          /\ directory_path.some
          /\ binary_to_execute \in Binaries
          /\ lookup(fs, directory_path.val).some
    /\ pc = "panicked" => (stdout = <<>> /\ launched = <<>> /\ panic.some)
    /\ launched # <<>> => (pc = "done" /\ binary_to_execute \in Binaries /\ stdout = <<>>)

\* C9 as stated: no error is skipped, so a search that wrote its items met
\* no unreadable entry in the root directory.
C9_Original ==
    /\ C9_NoPartialOutput
    /\ stdout # <<>> =>
          \A i \in 1..Len(RootListing) : RootListing[i].kind \notin {"ioerr", "nometa"}

\* C9 as amended: an entry whose metadata cannot be read ends the search
\* like the other errors; an entry that read_dir fails to yield is left out
\* and the search goes on with the entries that are left.
C9_FailFastButSkipsEntryErrors ==
    /\ C9_NoPartialOutput
    /\ stdout # <<>> =>
          /\ \A i \in 1..Len(RootListing) : RootListing[i].kind # "nometa"
          /\ LET found == SelectSeq(RootListing, LAMBDA e : e.kind = "dir")
             IN  directory_pathes
                    = [i \in 1..Len(found) |-> join(directory_path.val, found[i].fname)]

C9_Witness ==
    /\ pc = "panicked"
    /\ panic = Some("called Result::unwrap() on an Err value")
    /\ Len(RootListing) = 2
    /\ RootListing[1].kind = "dir"
    /\ RootListing[2].kind = "nometa"
    /\ stdout = <<>>

\* The elements of a comma-separated list, each trimmed.
RECURSIVE Split(_)
Split(s) ==
    IF "," \notin Range(s) THEN <<s>>
    ELSE LET i == CHOOSE k \in 1..Len(s) :
                      s[k] = "," /\ \A j \in 1..(k - 1) : s[j] # ","
         IN  <<SubSeq(s, 1, i - 1)>> \o Split(SubSeq(s, i + 1, Len(s)))

ListedRoots(v) == [i \in 1..Len(Split(v)) |-> trim(Split(v)[i])]

SubDirectories(f, root) ==
    LET found == SelectSeq(unwrap_or_default(lookup(f, root)), LAMBDA e : e.kind = "dir")
    IN  [i \in 1..Len(found) |-> join(root, found[i].fname)]

\* C10: DIRECTORY_PATH is a comma-separated list of roots, each trimmed:
\* when every root of the list can be read, the search reads each of them
\* and its candidates are the sub-directories of all of them.
C10_CommaSeparatedRoots ==
    LET roots == ListedRoots(directory_path.val)
    IN  (/\ fs # <<>>
         /\ \A i \in 1..Len(roots) :
               /\ lookup(fs, roots[i]).some
               /\ \A j \in 1..Len(lookup(fs, roots[i]).val) :
                     lookup(fs, roots[i]).val[j].kind \notin {"ioerr", "nometa"})
        => /\ pc # "panicked"
           /\ directory_pathes
                 = Concat([i \in 1..Len(roots) |-> SubDirectories(fs, roots[i])])

=============================================================================
